---- MODULE Spec2Model ----
(***************************************************************************)
(* Capture orchestration of better-shot (src-tauri/src/commands.rs).       *)
(*                                                                         *)
(* The four native capture commands run as concurrent callers on the async *)
(* worker pool.  They share the process-wide SCREENCAPTURE_LOCK, the       *)
(* operating system's process table (pgrep sees every screencapture        *)
(* process, ours or not) and the file system.  Every step of a command     *)
(* that touches one of these is one action.                                *)
(*                                                                         *)
(* Not modelled: poisoning of the mutex (no modelled step panics while     *)
(* holding it), so SCREENCAPTURE_LOCK.lock() never returns Err here.       *)
(***************************************************************************)
EXTENDS Naturals, Sequences, FiniteSets

\* Number of concurrent invocations of capture commands (each caller invokes
\* one command once).
NumCallers == 2

Callers == 1..NumCallers

Kinds == {"interactive", "fullscreen", "window", "ocr"}

VARIABLES
    pc,             \* position of each caller inside its command
    kind,           \* which command the caller invoked
    lock,           \* SCREENCAPTURE_LOCK: the set of callers holding it (0 or 1)
    fs,             \* the set of paths at which a file exists
    dest,           \* screenshot_path of the attempt
    exit,           \* exit status of the attempt's capture subprocess
    stderr,         \* diagnostic text of a capture subprocess that failed
    fileSeen,       \* value of screenshot_path.exists() on the success branch
    probeFound,     \* value of is_screencapture_running() in this attempt
    permRan,        \* check_and_activate_permission was started
    launched,       \* the capture facility was spawned in capture mode
    text,           \* recognized_text of an OCR attempt
    result,         \* the value the command returned
    clipboard,      \* what the system clipboard holds
    permDenied,     \* check_and_activate_permission returned Err
    ocrInvoked,     \* recognize_text_from_image was called by this attempt
    clipCalled,     \* a clipboard function was called by this command
    copyToClip,     \* the copy_to_clip argument of the command
    sound,          \* the playback thread started by play_screenshot_sound
    region_pc,      \* position of open_region_selector
    monitor_shots,  \* the Vec<MonitorShot> capture_monitors returned
    window,         \* the webview window labelled "region-selector"
    events,         \* the events emitted to that window, oldest first
    region_result,  \* the value open_region_selector returned
    app,            \* the application: running, or exited by the quit item
    windows,        \* the windows labelled "main" and "quick-overlay"
    main_recreated, \* show_main_window built a main window of its own
    app_events,     \* the events emitted to the front end so far
    hide_errors     \* the windows whose failed hide() was printed

\* the variables of the capture commands, of open_region_selector and of the
\* application windows
cvars == <<pc, kind, lock, fs, dest, exit, stderr, fileSeen,
           probeFound, permRan, launched, text, result, clipboard,
           permDenied, ocrInvoked, clipCalled, copyToClip, sound>>
rvars == <<region_pc, monitor_shots, window, events, region_result>>

wvars == <<app, windows, main_recreated, app_events, hide_errors>>

vars == <<cvars, rvars, wvars>>

----------------------------------------------------------------------------
(* Texts are sequences of one-character strings, so that str::contains is   *)
(* a real substring search.                                                 *)

PhrasePermission == <<"p","e","r","m","i","s","s","i","o","n">>
PhraseDenied == <<"d","e","n","i","e","d">>
PhraseNotAuthorized == <<"n","o","t"," ","a","u","t","h","o","r","i","z","e","d">>

\* Diagnostic texts a screencapture process may leave on its standard error.
DiagEmpty == <<>>
DiagDenied == <<"d","e","n","i","e","d">>
DiagDeniedCapital == <<"D","e","n","i","e","d">>
DiagTexts == {DiagEmpty, DiagDenied, DiagDeniedCapital}

\* Texts of the io::Error when the probe command cannot be executed.
IoNotFound == <<"o","s"," ","2">>
IoPermissionDenied == <<"P","e","r","m","i","s","s","i","o","n"," ","d","e","n","i","e","d">>
IoErrorTexts == {IoNotFound, IoPermissionDenied}

\* str::contains
Contains(s, sub) ==
    \E i \in 0..(Len(s) - Len(sub)) :
        /\ i + Len(sub) <= Len(s)
        /\ SubSeq(s, i + 1, i + Len(sub)) = sub

\* stderr.contains("permission") || stderr.contains("denied")
\*   || stderr.contains("not authorized")
HasDenialMarker(s) ==
    \/ Contains(s, PhrasePermission)
    \/ Contains(s, PhraseDenied)
    \/ Contains(s, PhraseNotAuthorized)

----------------------------------------------------------------------------
(* Paths and results                                                        *)

NoPath == <<"", "", 0>>
\* std::env::temp_dir().join(format!("bs_test_{}.png", std::process::id()))
test_path == <<"tmp", "bs_test", 0>>

FilePrefix(k) == IF k = "ocr" THEN "ocr_temp" ELSE "screenshot"

\* generate_filename(prefix, "png") joined to save_dir: a name that no other
\* call of this run produces (n is the number of the invocation).
generate_filename(k, n) == <<"save_dir", FilePrefix(k), n>>

MsgBusy == "Another screenshot capture is already in progress"
MsgPermissionCheck == "Permission check failed: Screen Recording permission not granted. Please ensure Screen Recording permission is granted in System Settings > Privacy & Security > Screen Recording."
MsgFilename == "generate_filename failed"
MsgRun == "Failed to run screencapture"
MsgWait == "Failed to wait for screencapture"
MsgPermissionRequired == "Screen Recording permission required. Please grant permission in System Settings > Privacy & Security > Screen Recording and restart the app."
MsgCancelledOrFailed == "Screenshot was cancelled or failed"
MsgFailed == "Screenshot failed"
MsgOcr == "OCR failed"
MsgClipboard == "Failed to copy text to clipboard"

Ok(path) == [ok |-> TRUE, path |-> path, text |-> <<>>, msg |-> ""]
OkText(t) == [ok |-> TRUE, path |-> NoPath, text |-> t, msg |-> ""]
Err(m) == [ok |-> FALSE, path |-> NoPath, text |-> <<>>, msg |-> m]
NoResult == [ok |-> FALSE, path |-> NoPath, text |-> <<>>, msg |-> ""]

\* Texts the Vision request may recognize (the lines joined with "\n"):
\* h"  and  a\n  (a, a backslash, the letter n).
TextQuote == <<"h", "\"">>
TextBackslash == <<"a", "\\", "n">>
RecognizedTexts == {TextQuote, TextBackslash}

RECURSIVE EscapeQuotes(_)
\* text.replace('"', "\\\"")
EscapeQuotes(s) ==
    IF s = <<>> THEN <<>>
    ELSE (IF Head(s) = "\"" THEN <<"\\", "\"">> ELSE <<Head(s)>>)
             \o EscapeQuotes(Tail(s))

\* The character an AppleScript string literal denotes by backslash + c.
EscapedChar(c) ==
    CASE c = "n" -> "\n"
      [] c = "t" -> "\t"
      [] c = "r" -> "\r"
      [] OTHER -> c

RECURSIVE AppleScriptString(_)
\* What osascript reads from  set the clipboard to "<s>" : the string the
\* literal denotes, or a syntax error (an unescaped quote inside, a backslash
\* before a character that is no escape, a backslash at the end).
AppleScriptString(s) ==
    IF s = <<>> THEN [ok |-> TRUE, text |-> <<>>]
    ELSE IF Head(s) = "\"" THEN [ok |-> FALSE, text |-> <<>>]
    ELSE IF Head(s) = "\\"
        THEN IF Len(s) < 2 \/ s[2] \notin {"\"", "\\", "n", "t", "r"}
                THEN [ok |-> FALSE, text |-> <<>>]
                ELSE LET rest == AppleScriptString(SubSeq(s, 3, Len(s))) IN
                     [ok |-> rest.ok,
                      text |-> IF rest.ok THEN <<EscapedChar(s[2])>> \o rest.text
                               ELSE <<>>]
        ELSE LET rest == AppleScriptString(Tail(s)) IN
             [ok |-> rest.ok,
              text |-> IF rest.ok THEN <<Head(s)>> \o rest.text ELSE <<>>]

\* The clipboard: empty, a text (copy_text_to_clipboard) or the image read
\* from a file (copy_image_to_clipboard).
ClipEmpty == [what |-> "none", text |-> <<>>, path |-> NoPath]
ClipText(t) == [what |-> "text", text |-> t, path |-> NoPath]
ClipImage(path) == [what |-> "image", text |-> <<>>, path |-> path]

----------------------------------------------------------------------------
\* the labels of the windows built in the setup closure
WindowLabels == {"main", "quick-overlay"}

\* cfg!(debug_assertions): the released build. A debug build starts with the
\* main window visible, a state the released build reaches by showing it.
DebugAssertions == FALSE

\* The state after the setup closure returned Ok: the lock is free, no command
\* is running, and both windows are built with their close handlers.
Init ==
    /\ pc = [p \in Callers |-> "idle"]
    /\ kind = [p \in Callers |-> "none"]
    /\ lock = {}
    /\ fs = {}
    /\ dest = [p \in Callers |-> NoPath]
    /\ exit = [p \in Callers |-> "none"]
    /\ stderr = [p \in Callers |-> DiagEmpty]
    /\ fileSeen = [p \in Callers |-> FALSE]
    /\ probeFound = [p \in Callers |-> FALSE]
    /\ permRan = [p \in Callers |-> FALSE]
    /\ launched = [p \in Callers |-> FALSE]
    /\ text = [p \in Callers |-> <<>>]
    /\ result = [p \in Callers |-> NoResult]
    /\ clipboard = ClipEmpty
    /\ permDenied = [p \in Callers |-> FALSE]
    /\ ocrInvoked = [p \in Callers |-> FALSE]
    /\ clipCalled = [p \in Callers |-> FALSE]
    /\ copyToClip = [p \in Callers |-> FALSE]
    /\ sound = [p \in Callers |-> "none"]
    /\ region_pc = "idle"
    /\ monitor_shots = <<>>
    /\ window = "none"
    /\ events = <<>>
    /\ region_result = NoResult
    /\ app = "running"
    /\ windows = [label \in WindowLabels |->
                    IF label = "main" /\ DebugAssertions THEN "visible" ELSE "hidden"]
    /\ main_recreated = FALSE
    /\ app_events = {}
    /\ hide_errors = {}

InFlight(q) == kind[q] \in Kinds /\ pc[q] \notin {"idle", "done"}


----------------------------------------------------------------------------
(* The lock                                                                 *)

\* The guard `_lock` is dropped when the command returns, on every path.
LockKeptOnReturn(p) == lock
LockAfterReturn(p) == lock \ {p}

\* native_capture_ocr_region takes the lock in an inner block that ends after
\* the permission check; the other commands keep the guard until they return.
LockAfterPermission(p) == IF kind[p] = "ocr" THEN lock \ {p} ELSE lock

\* return r
Return(p, r) ==
    /\ result' = [result EXCEPT ![p] = r]
    /\ pc' = [pc EXCEPT ![p] = "done"]
    /\ lock' = LockAfterReturn(p)

\* The UI layer invokes one of the four capture commands.
Call(p, k) ==
    /\ pc[p] = "idle"
    /\ pc' = [pc EXCEPT ![p] = "lock"]
    /\ kind' = [kind EXCEPT ![p] = k]
    /\ UNCHANGED <<lock, fs, dest, exit, stderr, fileSeen,
                   probeFound, permRan, launched, text, result, clipboard>>
    /\ UNCHANGED <<permDenied, ocrInvoked, clipCalled, copyToClip, sound>>
    /\ UNCHANGED <<rvars, wvars>>

AcquireWithoutExclusion(p) ==
    /\ pc[p] = "lock"
    /\ lock' = lock \cup {p}
    /\ pc' = [pc EXCEPT ![p] = "probe"]
    /\ UNCHANGED <<kind, fs, dest, exit, stderr, fileSeen,
                   probeFound, permRan, launched, text, result, clipboard>>
    /\ UNCHANGED <<permDenied, ocrInvoked, clipCalled, copyToClip, sound>>
    /\ UNCHANGED <<rvars, wvars>>

\* SCREENCAPTURE_LOCK.lock(): blocks until the mutex is free.
Acquire(p) ==
    /\ pc[p] = "lock"
    /\ lock = {}
    /\ lock' = {p}
    /\ pc' = [pc EXCEPT ![p] = "probe"]
    /\ UNCHANGED <<kind, fs, dest, exit, stderr, fileSeen,
                   probeFound, permRan, launched, text, result, clipboard>>
    /\ UNCHANGED <<permDenied, ocrInvoked, clipCalled, copyToClip, sound>>
    /\ UNCHANGED <<rvars, wvars>>

----------------------------------------------------------------------------
(* The running-instance probe                                               *)

\* A screencapture process started by this process exists: a permission
\* probe or a capture.
OwnScreencaptureRunning == \E q \in Callers : pc[q] \in {"permwait", "wait"}

is_screencapture_running_fail_closed(pgrepRan, external) ==
    ~pgrepRan \/ external \/ OwnScreencaptureRunning

\* pgrep -x screencapture: true when pgrep could be executed and a process
\* named screencapture exists, ours or one this process did not start
\* (external); if pgrep cannot be executed the answer is false.
is_screencapture_running(pgrepRan, external) ==
    pgrepRan /\ (external \/ OwnScreencaptureRunning)

ProbeIgnoresResult(p) ==
    /\ pc[p] = "probe"
    /\ \E pgrepRan \in BOOLEAN, external \in BOOLEAN :
          probeFound' = [probeFound EXCEPT ![p] =
                            is_screencapture_running(pgrepRan, external)]
    /\ pc' = [pc EXCEPT ![p] = "perm"]
    /\ UNCHANGED <<lock, result>>
    /\ UNCHANGED <<kind, fs, dest, exit, stderr, fileSeen,
                   permRan, launched, text, clipboard>>
    /\ UNCHANGED <<permDenied, ocrInvoked, clipCalled, copyToClip, sound>>
    /\ UNCHANGED <<rvars, wvars>>

\* if is_screencapture_running() { return Err(busy) }, where pgrep could be
\* executed or not (pgrepRan) and an outside screencapture exists or not.
ProbeWith(p, pgrepRan, external) ==
    /\ pc[p] = "probe"
    /\ LET found == is_screencapture_running(pgrepRan, external) IN
          /\ probeFound' = [probeFound EXCEPT ![p] = found]
          /\ IF found
                THEN Return(p, Err(MsgBusy))
                ELSE /\ pc' = [pc EXCEPT ![p] = "perm"]
                     /\ UNCHANGED <<lock, result>>
    /\ UNCHANGED <<kind, fs, dest, exit, stderr, fileSeen,
                   permRan, launched, text, clipboard>>
    /\ UNCHANGED <<permDenied, ocrInvoked, clipCalled, copyToClip, sound>>
    /\ UNCHANGED <<rvars, wvars>>

Probe(p) ==
    \E pgrepRan \in BOOLEAN, external \in BOOLEAN : ProbeWith(p, pgrepRan, external)

----------------------------------------------------------------------------
(* check_and_activate_permission                                            *)

AfterPermissionIgnoresDenial(p, denied) ==
    /\ permDenied' = [permDenied EXCEPT ![p] = denied]
    /\ pc' = [pc EXCEPT ![p] = "name"]
    /\ lock' = LockAfterPermission(p)
    /\ UNCHANGED result

\* What the command does with the Result of check_and_activate_permission:
\* `?` returns the mapped error, otherwise the command goes on (and the OCR
\* command leaves its lock block).
AfterPermission(p, denied) ==
    /\ permDenied' = [permDenied EXCEPT ![p] = denied]
    /\ IF denied
          THEN Return(p, Err(MsgPermissionCheck))
          ELSE /\ pc' = [pc EXCEPT ![p] = "name"]
               /\ lock' = LockAfterPermission(p)
               /\ UNCHANGED result

\* Command::new("screencapture") -x -T 0 test_path .output(): the probe
\* process starts.
PermSpawn(p) ==
    /\ pc[p] = "perm"
    /\ pc' = [pc EXCEPT ![p] = "permwait"]
    /\ permRan' = [permRan EXCEPT ![p] = TRUE]
    /\ UNCHANGED <<kind, lock, fs, dest, exit, stderr,
                   fileSeen, probeFound, launched, text, result, clipboard>>
    /\ UNCHANGED <<permDenied, ocrInvoked, clipCalled, copyToClip, sound>>
    /\ UNCHANGED <<rvars, wvars>>

\* .output() is Err(e): the probe process could not be run and the error
\* text is e.
PermSpawnFailWith(p, e) ==
    /\ pc[p] = "perm"
    /\ permRan' = [permRan EXCEPT ![p] = TRUE]
    /\ AfterPermission(p, HasDenialMarker(e))
    /\ UNCHANGED <<kind, fs, dest, exit, stderr, fileSeen,
                   probeFound, launched, text, clipboard>>
    /\ UNCHANGED <<ocrInvoked, clipCalled, copyToClip, sound>>
    /\ UNCHANGED <<rvars, wvars>>

PermSpawnFail(p) == \E e \in IoErrorTexts : PermSpawnFailWith(p, e)

\* The running probe process writes its throwaway capture to test_path.
PermWrite(p) ==
    /\ pc[p] = "permwait"
    /\ test_path \notin fs
    /\ fs' = fs \cup {test_path}
    /\ UNCHANGED <<pc, kind, lock, dest, exit, stderr, fileSeen, probeFound,
                   permRan, launched, text, result, clipboard>>
    /\ UNCHANGED <<permDenied, ocrInvoked, clipCalled, copyToClip, sound>>
    /\ UNCHANGED <<rvars, wvars>>

\* let _ = std::fs::remove_file(&test_path);
FsProbeArtifactKept == fs
FsAfterProbe == fs \ {test_path}

\* .output() is Ok(o): the probe process has exited; the file is removed and
\* stderr is classified.
PermExit(p) ==
    /\ pc[p] = "permwait"
    /\ fs' = FsAfterProbe
    /\ \E o \in DiagTexts : AfterPermission(p, HasDenialMarker(o))
    /\ UNCHANGED <<kind, dest, exit, stderr, fileSeen,
                   probeFound, permRan, launched, text, clipboard>>
    /\ UNCHANGED <<ocrInvoked, clipCalled, copyToClip, sound>>
    /\ UNCHANGED <<rvars, wvars>>

----------------------------------------------------------------------------
(* Destination path and the capture subprocess                              *)

\* generate_filename(..)? ; save_path.join(&filename)
GenerateName(p) ==
    /\ pc[p] = "name"
    /\ dest' = [dest EXCEPT ![p] = generate_filename(kind[p], p)]
    /\ pc' = [pc EXCEPT ![p] = "spawn"]
    /\ UNCHANGED <<kind, lock, fs, exit, stderr, fileSeen, probeFound,
                   permRan, launched, text, result, clipboard>>
    /\ UNCHANGED <<permDenied, ocrInvoked, clipCalled, copyToClip, sound>>
    /\ UNCHANGED <<rvars, wvars>>

\* generate_filename returned Err
GenerateNameFail(p) ==
    /\ pc[p] = "name"
    /\ Return(p, Err(MsgFilename))
    /\ UNCHANGED <<kind, fs, dest, exit, stderr, fileSeen,
                   probeFound, permRan, launched, text, clipboard>>
    /\ UNCHANGED <<permDenied, ocrInvoked, clipCalled, copyToClip, sound>>
    /\ UNCHANGED <<rvars, wvars>>

\* Command::new("screencapture") ... .spawn() (.status() for full screen):
\* the capture facility starts.
Spawn(p) ==
    /\ pc[p] = "spawn"
    /\ launched' = [launched EXCEPT ![p] = TRUE]
    /\ pc' = [pc EXCEPT ![p] = "wait"]
    /\ UNCHANGED <<kind, lock, fs, dest, exit, stderr,
                   fileSeen, probeFound, permRan, text, result, clipboard>>
    /\ UNCHANGED <<permDenied, ocrInvoked, clipCalled, copyToClip, sound>>
    /\ UNCHANGED <<rvars, wvars>>

\* .spawn() / .status() is Err: the capture facility could not be started.
SpawnFail(p) ==
    /\ pc[p] = "spawn"
    /\ Return(p, Err(MsgRun))
    /\ UNCHANGED <<kind, fs, dest, exit, stderr, fileSeen,
                   probeFound, permRan, launched, text, clipboard>>
    /\ UNCHANGED <<permDenied, ocrInvoked, clipCalled, copyToClip, sound>>
    /\ UNCHANGED <<rvars, wvars>>

\* The running capture subprocess writes (part of) the destination file.
CaptureWrite(p) ==
    /\ pc[p] = "wait"
    /\ dest[p] \notin fs
    /\ fs' = fs \cup {dest[p]}
    /\ UNCHANGED <<pc, kind, lock, dest, exit, stderr,
                   fileSeen, probeFound, permRan, launched, text, result,
                   clipboard>>
    /\ UNCHANGED <<permDenied, ocrInvoked, clipCalled, copyToClip, sound>>
    /\ UNCHANGED <<rvars, wvars>>

\* wait_with_output() is Err (for full screen: status() is Err after the
\* process started).  The child is taken to be gone.
WaitFail(p) ==
    /\ pc[p] = "wait"
    /\ Return(p, Err(IF kind[p] = "fullscreen" THEN MsgRun ELSE MsgWait))
    /\ UNCHANGED <<kind, fs, dest, exit, stderr, fileSeen,
                   probeFound, permRan, launched, text, clipboard>>
    /\ UNCHANGED <<permDenied, ocrInvoked, clipCalled, copyToClip, sound>>
    /\ UNCHANGED <<rvars, wvars>>

----------------------------------------------------------------------------
(* Completion                                                               *)

\* The file system after the status check: the interactive, window and OCR
\* commands remove the destination on a non-zero exit; full screen does not.
FsAfterExit(k, ok, path) ==
    IF ~ok /\ k # "fullscreen" THEN fs \ {path} ELSE fs

CaptureResultNoFileCheck(k, ok, exists, diag, path) ==
    IF ok THEN Ok(path) ELSE Err(MsgFailed)

\* The value returned after the subprocess exited (for OCR with ok and
\* exists the command goes on instead).
CaptureResult(k, ok, exists, diag, path) ==
    IF k = "fullscreen"
        THEN IF ~ok THEN Err(MsgFailed)
             ELSE IF exists THEN Ok(path) ELSE Err(MsgFailed)
        ELSE IF ~ok
                THEN IF HasDenialMarker(diag)
                        THEN Err(MsgPermissionRequired)
                        ELSE Err(MsgCancelledOrFailed)
                ELSE IF exists THEN Ok(path) ELSE Err(MsgCancelledOrFailed)

\* native_capture_ocr_region goes on to sound, text recognition and clipboard
\* only past both checks: status.success() and screenshot_path.exists().
ContinuesToOcrUnchecked(k, ok, exists) == k = "ocr"
ContinuesToOcr(k, ok, exists) == k = "ocr" /\ ok /\ exists

\* wait_with_output() / status() is Ok: the subprocess has exited with
\* status st, leaving diagnostic text d on its standard error (recorded for
\* a failed exit; no command reads it after a successful one).  Then
\* if !status.success() {..}  if screenshot_path.exists() {..} else {..}
Finish(p) ==
    /\ pc[p] = "wait"
    /\ \E st \in {"ok", "fail"}, d \in DiagTexts :
          LET ok == st = "ok"
              exists == dest[p] \in fs
          IN  /\ ok => d = DiagEmpty
              /\ exit' = [exit EXCEPT ![p] = st]
              /\ stderr' = [stderr EXCEPT ![p] = d]
              /\ fs' = FsAfterExit(kind[p], ok, dest[p])
              /\ fileSeen' = [fileSeen EXCEPT ![p] = ok /\ exists]
              /\ IF ContinuesToOcr(kind[p], ok, exists)
                    THEN /\ pc' = [pc EXCEPT ![p] = "sound"]
                         /\ UNCHANGED <<lock, result>>
                    ELSE Return(p, CaptureResult(kind[p], ok, exists, d, dest[p]))
    /\ UNCHANGED <<kind, dest, probeFound, permRan, launched, text, clipboard>>
    /\ UNCHANGED <<permDenied, ocrInvoked, clipCalled, copyToClip, sound>>
    /\ UNCHANGED <<rvars, wvars>>

----------------------------------------------------------------------------
(* OCR tail of native_capture_ocr_region                                    *)

\* play_screenshot_sound().await.ok(): the function starts the playback
\* thread and returns Ok(()) at once.
PlaySoundBlocking(p) ==
    /\ pc[p] = "sound"
    /\ sound[p] = "none"
    /\ sound' = [sound EXCEPT ![p] = "spawned"]
    /\ UNCHANGED <<pc, kind, lock, fs, dest, exit, stderr, fileSeen, probeFound,
                   permRan, launched, text, result, clipboard, permDenied,
                   ocrInvoked, clipCalled, copyToClip>>
    /\ UNCHANGED <<rvars, wvars>>

PlaySound(p) ==
    /\ pc[p] = "sound"
    /\ sound' = [sound EXCEPT ![p] = "spawned"]
    /\ pc' = [pc EXCEPT ![p] = "ocr"]
    /\ UNCHANGED <<kind, lock, fs, dest, exit, stderr, fileSeen, probeFound,
                   permRan, launched, text, result, clipboard, permDenied,
                   ocrInvoked, clipCalled, copyToClip>>
    /\ UNCHANGED <<rvars, wvars>>

\* The playback thread: AudioServicesPlaySystemSound, sleep, dispose.
SoundPlayed(p) ==
    /\ sound[p] = "spawned"
    /\ sound' = [sound EXCEPT ![p] = "played"]
    /\ UNCHANGED <<pc, kind, lock, fs, dest, exit, stderr, fileSeen, probeFound,
                   permRan, launched, text, result, clipboard, permDenied,
                   ocrInvoked, clipCalled, copyToClip>>
    /\ UNCHANGED <<rvars, wvars>>

\* The playback thread: no URL or no sound id, fallback_sound_playback()
\* spawns osascript and ignores whether that worked.
SoundFallback(p) ==
    /\ sound[p] = "spawned"
    /\ sound' = [sound EXCEPT ![p] = "fallback"]
    /\ UNCHANGED <<pc, kind, lock, fs, dest, exit, stderr, fileSeen, probeFound,
                   permRan, launched, text, result, clipboard, permDenied,
                   ocrInvoked, clipCalled, copyToClip>>
    /\ UNCHANGED <<rvars, wvars>>

\* recognize_text_from_image(&path_str): Err when the file is missing, the
\* Vision request fails or nothing is recognized; otherwise the joined text.
Recognize(p) ==
    /\ pc[p] = "ocr"
    /\ ocrInvoked' = [ocrInvoked EXCEPT ![p] = TRUE]
    /\ \E recognized \in BOOLEAN, t \in RecognizedTexts :
          IF ~recognized \/ dest[p] \notin fs
             THEN /\ Return(p, Err(MsgOcr))
                  /\ UNCHANGED text
             ELSE /\ text' = [text EXCEPT ![p] = t]
                  /\ pc' = [pc EXCEPT ![p] = "clip"]
                  /\ UNCHANGED <<lock, result>>
    /\ UNCHANGED <<kind, fs, dest, exit, stderr, fileSeen,
                   probeFound, permRan, launched, clipboard>>
    /\ UNCHANGED <<permDenied, clipCalled, copyToClip, sound>>
    /\ UNCHANGED <<rvars, wvars>>

\* copy_text_to_clipboard(&recognized_text)?; remove_file; Ok(recognized_text)
\* The copy succeeds when osascript could be run and accepted the script;
\* the clipboard then holds what the script's string literal denotes.
CopyText(p) ==
    /\ pc[p] = "clip"
    /\ clipCalled' = [clipCalled EXCEPT ![p] = TRUE]
    /\ \E ran \in BOOLEAN :
          LET literal == AppleScriptString(EscapeQuotes(text[p])) IN
          IF ran /\ literal.ok
             THEN /\ clipboard' = ClipText(literal.text)
                  /\ fs' = fs \ {dest[p]}
                  /\ Return(p, OkText(text[p]))
             ELSE /\ Return(p, Err(MsgClipboard))
                  /\ UNCHANGED <<clipboard, fs>>
    /\ UNCHANGED <<kind, dest, exit, stderr, fileSeen,
                   probeFound, permRan, launched, text>>
    /\ UNCHANGED <<permDenied, ocrInvoked, copyToClip, sound>>
    /\ UNCHANGED <<rvars, wvars>>

----------------------------------------------------------------------------
(* capture_once and save_edited_image                                       *)

SaveKinds == {"capture_once", "save_edited_image"}

MsgCapture == "capture_primary_monitor failed"
MsgSave == "saving the image failed"
MsgCopyImage == "Failed to copy image to clipboard"

\* saved_path: the file copy_screenshot_to_dir / save_base64_image wrote under
\* save_dir (n is the number of the invocation).
SavedPath(k, n) ==
    <<"save_dir", IF k = "save_edited_image" THEN "bettershot" ELSE "screenshot", n>>

\* The UI layer invokes capture_once or save_edited_image.
CallSave(p, k, flag) ==
    /\ pc[p] = "idle"
    /\ pc' = [pc EXCEPT ![p] = "save"]
    /\ kind' = [kind EXCEPT ![p] = k]
    /\ copyToClip' = [copyToClip EXCEPT ![p] = flag]
    /\ UNCHANGED <<lock, fs, dest, exit, stderr, fileSeen, probeFound, permRan,
                   launched, text, result, clipboard, permDenied, ocrInvoked,
                   clipCalled, sound>>
    /\ UNCHANGED <<rvars, wvars>>

AfterSaveAlwaysCopies(p, path) ==
    /\ pc' = [pc EXCEPT ![p] = "copyimg"]
    /\ UNCHANGED <<lock, result>>

\* if copy_to_clip { copy_image_to_clipboard(&saved_path)?; }  Ok(saved_path)
AfterSave(p, path) ==
    IF copyToClip[p]
        THEN /\ pc' = [pc EXCEPT ![p] = "copyimg"]
             /\ UNCHANGED <<lock, result>>
        ELSE Return(p, Ok(path))

\* capture_primary_monitor(..).await? and copy_screenshot_to_dir(..)? for
\* capture_once, save_base64_image(..)? for save_edited_image.
SaveStep(p) ==
    /\ pc[p] = "save"
    /\ \E outcome \in {"capture_failed", "save_failed", "saved"} :
          /\ outcome = "capture_failed" => kind[p] = "capture_once"
          /\ IF outcome = "saved"
                THEN /\ dest' = [dest EXCEPT ![p] = SavedPath(kind[p], p)]
                     /\ fs' = fs \cup {SavedPath(kind[p], p)}
                     /\ AfterSave(p, SavedPath(kind[p], p))
                ELSE /\ Return(p, Err(IF outcome = "capture_failed"
                                         THEN MsgCapture ELSE MsgSave))
                     /\ UNCHANGED <<dest, fs>>
    /\ UNCHANGED <<kind, exit, stderr, fileSeen, probeFound, permRan, launched,
                   text, clipboard, permDenied, ocrInvoked, clipCalled,
                   copyToClip, sound>>
    /\ UNCHANGED <<rvars, wvars>>

CopyImageIgnoresFailure(p) ==
    /\ pc[p] = "copyimg"
    /\ clipCalled' = [clipCalled EXCEPT ![p] = TRUE]
    /\ \E copied \in BOOLEAN :
          /\ clipboard' = IF copied THEN ClipImage(dest[p]) ELSE clipboard
          /\ Return(p, Ok(dest[p]))
    /\ UNCHANGED <<kind, fs, dest, exit, stderr, fileSeen, probeFound, permRan,
                   launched, text, permDenied, ocrInvoked, copyToClip, sound>>
    /\ UNCHANGED <<rvars, wvars>>

\* copy_image_to_clipboard(&saved_path)?; Ok(saved_path)
CopyImage(p) ==
    /\ pc[p] = "copyimg"
    /\ clipCalled' = [clipCalled EXCEPT ![p] = TRUE]
    /\ \E copied \in BOOLEAN :
          IF copied
             THEN /\ clipboard' = ClipImage(dest[p])
                  /\ Return(p, Ok(dest[p]))
             ELSE /\ Return(p, Err(MsgCopyImage))
                  /\ UNCHANGED clipboard
    /\ UNCHANGED <<kind, fs, dest, exit, stderr, fileSeen, probeFound, permRan,
                   launched, text, permDenied, ocrInvoked, copyToClip, sound>>
    /\ UNCHANGED <<rvars, wvars>>

----------------------------------------------------------------------------
Next ==
    \/ \E p \in Callers, k \in Kinds : Call(p, k)
    \/ \E p \in Callers : Acquire(p)
    \/ \E p \in Callers : Probe(p)
    \/ \E p \in Callers : PermSpawn(p)
    \/ \E p \in Callers : PermSpawnFail(p)
    \/ \E p \in Callers : PermWrite(p)
    \/ \E p \in Callers : PermExit(p)
    \/ \E p \in Callers : GenerateName(p)
    \/ \E p \in Callers : GenerateNameFail(p)
    \/ \E p \in Callers : Spawn(p)
    \/ \E p \in Callers : SpawnFail(p)
    \/ \E p \in Callers : CaptureWrite(p)
    \/ \E p \in Callers : WaitFail(p)
    \/ \E p \in Callers : Finish(p)
    \/ \E p \in Callers : PlaySound(p)
    \/ \E p \in Callers : SoundPlayed(p)
    \/ \E p \in Callers : SoundFallback(p)
    \/ \E p \in Callers : Recognize(p)
    \/ \E p \in Callers : CopyText(p)
    \/ \E p \in Callers, k \in SaveKinds, flag \in BOOLEAN : CallSave(p, k, flag)
    \/ \E p \in Callers : SaveStep(p)
    \/ \E p \in Callers : CopyImage(p)

Spec == Init /\ [][Next]_vars

----------------------------------------------------------------------------
(* open_region_selector                                                     *)

MaxMonitors == 2

\* A MonitorShot: the display it was taken of and the file it was written to.
ShotPath(i) == <<"save_dir", "monitor", i>>
MonitorShot(i) == [id |-> i, path |-> ShotPath(i)]

RECURSIVE ShotSeqsOf(_)
\* every order in which the displays of set ids can be enumerated
ShotSeqsOf(ids) ==
    IF ids = {} THEN {<<>>}
    ELSE UNION {{<<MonitorShot(i)>> \o rest : rest \in ShotSeqsOf(ids \ {i})} : i \in ids}

\* The sequences capture_monitors may return: the displays attached, in the
\* order they were enumerated.
ShotSeqs == UNION {ShotSeqsOf(ids) : ids \in SUBSET (1..MaxMonitors)}

MsgMonitors == "capture_monitors failed"
MsgCreateWindow == "Failed to create region selector window"
MsgShowWindow == "Failed to show region selector window"
MsgEmit == "Failed to emit region selector event"

OkUnit == [ok |-> TRUE, path |-> NoPath, text |-> <<>>, msg |-> ""]

PayloadWithoutFirst(shots) ==
    [event |-> "region-selector-show",
     screenshotPath |-> IF shots = <<>> THEN NoPath ELSE shots[1].path,
     monitorShots |-> IF shots = <<>> THEN <<>> ELSE Tail(shots)]

\* json!({ "screenshotPath": monitor_shots.first().map(|m| m.path.clone())
\*            .unwrap_or_default(), "monitorShots": monitor_shots })
Payload(shots) ==
    [event |-> "region-selector-show",
     screenshotPath |-> IF shots = <<>> THEN NoPath ELSE shots[1].path,
     monitorShots |-> shots]

\* return of open_region_selector with value r
RegionReturn(r) ==
    /\ region_pc' = "done"
    /\ region_result' = r

\* The UI layer invokes open_region_selector.
OpenRegionSelector ==
    /\ region_pc \in {"idle", "done"}
    /\ region_pc' = "capture"
    /\ monitor_shots' = <<>>
    /\ region_result' = NoResult
    /\ UNCHANGED <<window, events>>
    /\ UNCHANGED <<cvars, wvars>>

CaptureMonitorsAfterClose ==
    /\ region_pc = "capture"
    /\ window' = "none"
    /\ events' = <<>>
    /\ \E captured \in BOOLEAN :
          IF captured
             THEN /\ \E shots \in ShotSeqs : monitor_shots' = shots
                  /\ region_pc' = "close"
                  /\ UNCHANGED region_result
             ELSE /\ RegionReturn(Err(MsgMonitors))
                  /\ UNCHANGED monitor_shots
    /\ UNCHANGED <<cvars, wvars>>

\* let monitor_shots = capture_monitors(&save_dir)?;
CaptureMonitors ==
    /\ region_pc = "capture"
    /\ \E captured \in BOOLEAN :
          IF captured
             THEN /\ \E shots \in ShotSeqs : monitor_shots' = shots
                  /\ region_pc' = "close"
                  /\ UNCHANGED region_result
             ELSE /\ RegionReturn(Err(MsgMonitors))
                  /\ UNCHANGED monitor_shots
    /\ UNCHANGED <<window, events>>
    /\ UNCHANGED <<cvars, wvars>>

\* if let Some(existing_window) = get_webview_window(..) {
\*     existing_window.close().ok(); }
CloseExisting ==
    /\ region_pc = "close"
    /\ region_pc' = "build"
    /\ IF window = "none"
          THEN UNCHANGED <<window, events>>
          ELSE \E closed \in BOOLEAN :
                  IF closed
                     THEN window' = "none" /\ events' = <<>>
                     ELSE UNCHANGED <<window, events>>
    /\ UNCHANGED <<monitor_shots, region_result>>
    /\ UNCHANGED <<cvars, wvars>>

\* WebviewWindowBuilder::new(.., "region-selector", ..) .. .visible(false)
\* .build().map_err(..)?  -- build fails when the label is still taken.
BuildWindow ==
    /\ region_pc = "build"
    /\ \E built \in BOOLEAN :
          IF built /\ window = "none"
             THEN /\ window' = "hidden"
                  /\ events' = <<>>
                  /\ region_pc' = "show"
                  /\ UNCHANGED region_result
             ELSE /\ RegionReturn(Err(MsgCreateWindow))
                  /\ UNCHANGED <<window, events>>
    /\ UNCHANGED monitor_shots
    /\ UNCHANGED <<cvars, wvars>>

\* window.show().map_err(..)?
ShowWindow ==
    /\ region_pc = "show"
    /\ \E shown \in BOOLEAN :
          IF shown
             THEN /\ window' = "visible"
                  /\ region_pc' = "emit"
                  /\ UNCHANGED region_result
             ELSE /\ RegionReturn(Err(MsgShowWindow))
                  /\ UNCHANGED window
    /\ UNCHANGED <<monitor_shots, events>>
    /\ UNCHANGED <<cvars, wvars>>

\* thread::sleep(100 ms); window.emit("region-selector-show", json!(..))
\*     .map_err(..)?; Ok(())
EmitShow ==
    /\ region_pc = "emit"
    /\ \E emitted \in BOOLEAN :
          IF emitted
             THEN /\ events' = Append(events, Payload(monitor_shots))
                  /\ RegionReturn(OkUnit)
             ELSE /\ RegionReturn(Err(MsgEmit))
                  /\ UNCHANGED events
    /\ UNCHANGED <<monitor_shots, window>>
    /\ UNCHANGED <<cvars, wvars>>

NextRegion ==
    \/ OpenRegionSelector
    \/ CaptureMonitors
    \/ CloseExisting
    \/ BuildWindow
    \/ ShowWindow
    \/ EmitShow

SpecRegion == Init /\ [][NextRegion]_vars

----------------------------------------------------------------------------
(* The application windows and the tray menu (lib.rs)                       *)

\* what the window event handler leaves of a window that got CloseRequested,
\* if the handler hid the window and let the close go on: the window is
\* destroyed
OnCloseRequestedHideOnly(state, hideOk) == "none"

\* what the window event handler leaves of a window that got CloseRequested:
\* hide() is tried and its error only printed, then api.prevent_close()
\* keeps the window
OnCloseRequested(state, hideOk) == IF hideOk THEN "hidden" ELSE state

\* a close request (the close button, or a close() call of the front end)
\* reaches the handler installed on the window
CloseRequestedWith(label, hideOk) ==
    /\ app = "running"
    /\ windows[label] # "none"
    /\ windows' = [windows EXCEPT ![label] = OnCloseRequested(@, hideOk)]
    /\ hide_errors' = IF hideOk THEN hide_errors ELSE hide_errors \cup {label}
    /\ UNCHANGED <<app, main_recreated, app_events>>
    /\ UNCHANGED <<cvars, rvars>>

CloseRequested(label) == \E hideOk \in BOOLEAN : CloseRequestedWith(label, hideOk)

\* the quick overlay is built hidden; the front end shows it
ShowOverlay ==
    /\ app = "running"
    /\ windows["quick-overlay"] = "hidden"
    /\ windows' = [windows EXCEPT !["quick-overlay"] = "visible"]
    /\ UNCHANGED <<app, main_recreated, app_events, hide_errors>>
    /\ UNCHANGED <<cvars, rvars>>

\* show_main_window: the effect on the windows. An existing main window is
\* shown and focused, the results of both calls dropped; without one a new
\* main window is built (visible, the builder's default) and gets the same
\* close handler.
show_main_window(showOk, buildOk) ==
    IF windows["main"] # "none"
    THEN /\ windows' = [windows EXCEPT !["main"] = IF showOk THEN "visible" ELSE @]
         /\ UNCHANGED main_recreated
    ELSE IF buildOk
         THEN /\ windows' = [windows EXCEPT !["main"] = "visible"]
              /\ main_recreated' = TRUE
         ELSE UNCHANGED <<windows, main_recreated>>

\* show_main_window returned Ok(())
show_main_window_ok(buildOk) == windows["main"] # "none" \/ buildOk

\* tray item "open"
TrayOpenWith(showOk, buildOk) ==
    /\ app = "running"
    /\ show_main_window(showOk, buildOk)
    /\ UNCHANGED <<app, app_events, hide_errors>>
    /\ UNCHANGED <<cvars, rvars>>

TrayOpen == \E showOk \in BOOLEAN, buildOk \in BOOLEAN : TrayOpenWith(showOk, buildOk)

TrayCaptureEvents ==
    {"capture-triggered", "capture-fullscreen", "capture-window", "capture-ocr"}

\* tray items "capture_region", "capture_screen", "capture_window" and
\* "capture_ocr": one event to the front end, the result of emit dropped
TrayCapture(event) ==
    /\ app = "running"
    /\ \E emitOk \in BOOLEAN :
          app_events' = IF emitOk THEN app_events \cup {event} ELSE app_events
    /\ UNCHANGED <<app, windows, main_recreated, hide_errors>>
    /\ UNCHANGED <<cvars, rvars>>

\* tray item "preferences"
TrayPreferencesWith(showOk, buildOk) ==
    /\ app = "running"
    /\ show_main_window(showOk, buildOk)
    /\ \E emitOk \in BOOLEAN :
          app_events' = IF show_main_window_ok(buildOk) /\ emitOk
                     THEN app_events \cup {"open-preferences"}
                     ELSE app_events
    /\ UNCHANGED <<app, hide_errors>>
    /\ UNCHANGED <<cvars, rvars>>

TrayPreferences ==
    \E showOk \in BOOLEAN, buildOk \in BOOLEAN : TrayPreferencesWith(showOk, buildOk)

\* tray item "quit": app.exit(0) ends the application and its windows
TrayQuit ==
    /\ app = "running"
    /\ app' = "exited"
    /\ windows' = [label \in WindowLabels |-> "none"]
    /\ UNCHANGED <<main_recreated, app_events, hide_errors>>
    /\ UNCHANGED <<cvars, rvars>>

\* command emit_capture_complete: with a main window, the event is emitted
\* to it (an error returns early), then show and focus are tried
EmitCaptureComplete ==
    /\ app = "running"
    /\ \E emitOk \in BOOLEAN, showOk \in BOOLEAN :
          IF windows["main"] # "none" /\ emitOk
          THEN /\ app_events' = app_events \cup {"capture-complete"}
               /\ windows' = [windows EXCEPT !["main"] = IF showOk THEN "visible" ELSE @]
          ELSE UNCHANGED <<app_events, windows>>
    /\ UNCHANGED <<app, main_recreated, hide_errors>>
    /\ UNCHANGED <<cvars, rvars>>

\* command restore_main_window: with a main window, show then focus
RestoreMainWindow ==
    /\ app = "running"
    /\ \E showOk \in BOOLEAN :
          windows' = [windows EXCEPT !["main"] =
                         IF @ # "none" /\ showOk THEN "visible" ELSE @]
    /\ UNCHANGED <<app, main_recreated, app_events, hide_errors>>
    /\ UNCHANGED <<cvars, rvars>>

NextWindows ==
    \/ \E label \in WindowLabels : CloseRequested(label)
    \/ ShowOverlay
    \/ TrayOpen
    \/ \E event \in TrayCaptureEvents : TrayCapture(event)
    \/ TrayPreferences
    \/ TrayQuit
    \/ EmitCaptureComplete
    \/ RestoreMainWindow

SpecWindows == Init /\ [][NextWindows]_vars

----------------------------------------------------------------------------
(* Type invariant                                                           *)

PcValues == {"idle", "lock", "probe", "perm", "permwait", "name", "spawn",
             "wait", "sound", "ocr", "clip", "save", "copyimg", "done"}

TypeOK ==
    /\ pc \in [Callers -> PcValues]
    /\ kind \in [Callers -> Kinds \cup SaveKinds \cup {"none"}]
    /\ lock \subseteq Callers
    /\ Cardinality(lock) <= 1
    /\ exit \in [Callers -> {"none", "ok", "fail"}]
    /\ stderr \in [Callers -> DiagTexts]
    /\ fileSeen \in [Callers -> BOOLEAN]
    /\ probeFound \in [Callers -> BOOLEAN]
    /\ permRan \in [Callers -> BOOLEAN]
    /\ launched \in [Callers -> BOOLEAN]
    /\ clipboard.what \in {"none", "text", "image"}
    /\ permDenied \in [Callers -> BOOLEAN]
    /\ ocrInvoked \in [Callers -> BOOLEAN]
    /\ clipCalled \in [Callers -> BOOLEAN]
    /\ copyToClip \in [Callers -> BOOLEAN]
    /\ sound \in [Callers -> {"none", "spawned", "played", "fallback"}]
    /\ region_pc \in {"idle", "capture", "close", "build", "show", "emit", "done"}
    /\ monitor_shots \in ShotSeqs
    /\ window \in {"none", "hidden", "visible"}
    /\ events \in Seq({Payload(shots) : shots \in ShotSeqs})
    /\ Len(events) <= 1
    /\ region_result \in {NoResult, OkUnit, Err(MsgMonitors), Err(MsgCreateWindow),
                            Err(MsgShowWindow), Err(MsgEmit)}
    /\ app \in {"running", "exited"}
    /\ windows \in [WindowLabels -> {"none", "hidden", "visible"}]
    /\ main_recreated \in BOOLEAN
    /\ app_events \subseteq TrayCaptureEvents \cup {"open-preferences", "capture-complete"}
    /\ hide_errors \subseteq WindowLabels

----------------------------------------------------------------------------
(* Outcomes of an attempt that has returned                                 *)

Returned(p) == pc[p] = "done"
\* exit status 0 and the destination file present at the check
Completed(p) == exit[p] = "ok" /\ fileSeen[p]
\* exit status 0 and the destination file absent at the check
Cancelled(p) == Returned(p) /\ exit[p] = "ok" /\ ~fileSeen[p]
\* non-zero exit status
Failed(p) == Returned(p) /\ exit[p] = "fail"

----------------------------------------------------------------------------
(* C1 .. C10                                                                *)

\* C1: an attempt that starts while another attempt holds the single-flight
\* lock never blocks or waits for it: at the lock acquisition its step can be
\* taken at once (and must then fail with the busy error).
C1_NeverBlocksOnLock ==
    \A p \in Callers : (pc[p] = "lock" /\ lock # {}) => ENABLED Acquire(p)

\* C2: of two concurrent attempts exactly one reaches AwaitingCompletion and
\* the other ends with the busy error without launching: while one attempt
\* awaits its capture subprocess, no other attempt in flight has got past the
\* lock and the running-instance probe.
C2_OneAwaitsOtherBusy ==
    \A p \in Callers : \A q \in Callers \ {p} :
        (pc[p] = "wait" /\ InFlight(q)) => pc[q] \in {"lock", "probe"}

\* C3: from the start of permission verification until its capture
\* subprocess has exited, an attempt of any kind holds the lock.
C3_LockHeldThroughCompletion ==
    \A p \in Callers :
        pc[p] \in {"perm", "permwait", "name", "spawn", "wait"} => p \in lock

\* C4: at most one capture subprocess launched by this process runs at a time.
C4_OneCaptureSubprocess ==
    Cardinality({p \in Callers : pc[p] = "wait"}) <= 1

\* C5: a capture command that has returned (on whatever path) does not hold
\* the lock, and once every other attempt has returned a new attempt can
\* acquire it.
C5_LockReleasedOnReturn ==
    /\ \A p \in Callers : ~InFlight(p) => p \notin lock
    /\ \A p \in Callers :
          (pc[p] = "lock" /\ \A q \in Callers \ {p} : ~InFlight(q))
              => ENABLED Acquire(p)

\* C5 witness: an attempt that launched the capture facility has returned an
\* error and another attempt holds the lock after it.
C5_Witness ==
    \E p \in Callers : \E q \in Callers \ {p} :
        /\ Returned(p) /\ ~result[p].ok /\ launched[p] /\ kind[p] # "ocr"
        /\ lock = {q}

\* C6: a command returns success only if the capture subprocess exited with
\* success status and the destination file existed at the check; interactive,
\* full-screen and window capture return exactly the destination path.
C6_SuccessNeedsExitAndFile ==
    \A p \in Callers :
        (Returned(p) /\ kind[p] \in Kinds /\ result[p].ok) =>
            /\ launched[p]
            /\ exit[p] = "ok"
            /\ fileSeen[p]
            /\ kind[p] # "ocr" => (dest[p] # NoPath /\ result[p] = Ok(dest[p]))

\* C6 witness: a command returned its destination path and the file is there.
C6_Witness ==
    \E p \in Callers :
        /\ Returned(p) /\ result[p].ok /\ kind[p] \in Kinds \ {"ocr"}
        /\ result[p].path = dest[p] /\ dest[p] \in fs

C8_NoFileUnlessCompleted ==
    \A p \in Callers :
        (Returned(p) /\ launched[p] /\ ~Completed(p)) => dest[p] \notin fs

\* C9: for every kind, after a non-zero exit the command returns the
\* permission-required error if the diagnostic output holds a denial marker
\* and a generic failure otherwise.
C9_DenialMarkerInspected ==
    \A p \in Callers :
        Failed(p) =>
            IF HasDenialMarker(stderr[p])
                THEN result[p] = Err(MsgPermissionRequired)
                ELSE result[p] \in {Err(MsgCancelledOrFailed), Err(MsgFailed)}

\* C10: an attempt whose probe found a running instance has returned the
\* busy error without running the permission probe, generating a destination
\* or spawning the capture facility, and does not hold the lock.
C10_ProbeFoundMeansBusy ==
    \A p \in Callers :
        probeFound[p] =>
            /\ Returned(p)
            /\ result[p] = Err(MsgBusy)
            /\ ~permRan[p]
            /\ dest[p] = NoPath
            /\ ~launched[p]
            /\ p \notin lock

\* C10 witness: a probe saw the capture subprocess of another attempt and the
\* attempt was rejected.
C10_Witness ==
    \E p \in Callers : \E q \in Callers \ {p} :
        /\ probeFound[p] /\ result[p] = Err(MsgBusy)
        /\ pc[q] = "wait"

----------------------------------------------------------------------------
(* C11 .. C20                                                               *)

\* The program points that may directly follow a program point of a capture
\* command: Idle (idle, lock), PermissionCheck (probe, perm, permwait),
\* Spawning (name, spawn), AwaitingCompletion (wait), the OCR tail and the
\* terminal point.
Successors(s) ==
    CASE s = "idle" -> {"lock"}
      [] s = "lock" -> {"probe"}
      [] s = "probe" -> {"perm", "done"}
      [] s = "perm" -> {"permwait", "name", "done"}
      [] s = "permwait" -> {"name", "done"}
      [] s = "name" -> {"spawn", "done"}
      [] s = "spawn" -> {"wait", "done"}
      [] s = "wait" -> {"sound", "done"}
      [] s = "sound" -> {"ocr"}
      [] s = "ocr" -> {"clip", "done"}
      [] s = "clip" -> {"done"}
      [] OTHER -> {}

GuidanceMessages == {MsgPermissionCheck, MsgPermissionRequired}

\* C12: an attempt whose permission probe was classified as denied has
\* returned the error that guides the user to the Screen Recording settings
\* (not the diagnostic text), has not launched the capture facility, and has
\* neither taken nor created a destination file.
C12_DeniedGivesGuidance ==
    \A p \in Callers :
        permDenied[p] =>
            /\ Returned(p)
            /\ result[p] = Err(MsgPermissionCheck)
            /\ result[p].msg \in GuidanceMessages
            /\ ~launched[p]
            /\ dest[p] = NoPath
            /\ generate_filename(kind[p], p) \notin fs

\* C12 witness: a probe that ran and printed a denial marker ended the
\* attempt.
C12_Witness ==
    \E p \in Callers :
        /\ permDenied[p] /\ permRan[p] /\ Returned(p)
        /\ result[p] = Err(MsgPermissionCheck)


LowerChar(c) ==
    CASE c = "D" -> "d"
      [] c = "P" -> "p"
      [] c = "N" -> "n"
      [] OTHER -> c

ToLower(s) == [i \in 1..Len(s) |-> LowerChar(s[i])]

\* C14: denial classification is a case-insensitive substring match: a
\* command that inspects the diagnostic output after a non-zero exit returns
\* the permission-required error whenever that output holds a denial phrase
\* in any letter case.
C14_CaseInsensitiveDenial ==
    \A p \in Callers :
        (Failed(p) /\ kind[p] # "fullscreen" /\ HasDenialMarker(ToLower(stderr[p])))
            => result[p] = Err(MsgPermissionRequired)


\* C15: when native_capture_ocr_region returns after its capture subprocess
\* completed (text recognized, recognition failed, or the clipboard write
\* failed) no ocr_temp file of the attempt exists.
C15_OcrTempRemoved ==
    \A p \in Callers :
        (Returned(p) /\ kind[p] = "ocr" /\ Completed(p)) => dest[p] \notin fs


\* C16: recognize_text_from_image is invoked only by the OCR command and only
\* after its capture subprocess exited with success status and the
\* destination file was seen; never after a busy, permission, spawn,
\* cancelled or failed outcome.
C16_OcrOnlyAfterCapture ==
    \A p \in Callers :
        ocrInvoked[p] =>
            /\ kind[p] = "ocr"
            /\ launched[p]
            /\ exit[p] = "ok"
            /\ fileSeen[p]
            /\ ~probeFound[p]
            /\ ~permDenied[p]
            /\ result[p] \notin {Err(MsgBusy), Err(MsgPermissionCheck), Err(MsgRun),
                                 Err(MsgWait), Err(MsgPermissionRequired),
                                 Err(MsgCancelledOrFailed), Err(MsgFailed)}

\* C16 witness: the OCR collaborator was invoked and returned text.
C16_Witness ==
    \E p \in Callers :
        ocrInvoked[p] /\ kind[p] = "ocr" /\ text[p] \in RecognizedTexts


\* C17: a command calls the clipboard collaborator only after its
\* capture/save step succeeded and only when its copy-to-clipboard flag is
\* set; no command writes the clipboard without the flag.
C17_ClipboardOnlyWithFlag ==
    \A p \in Callers :
        clipCalled[p] => (copyToClip[p] /\ dest[p] # NoPath)

\* C17 (amended): capture_once and save_edited_image call the clipboard
\* collaborator only after their save step succeeded and only when the
\* copy-to-clipboard flag is set, and with the flag false they never write
\* the clipboard; native_capture_ocr_region, which takes no such flag, always
\* copies the recognized text after a successful capture and recognition.
C17_ClipboardFlagForImageCommands ==
    /\ \A p \in Callers :
          clipCalled[p] =>
              IF kind[p] \in SaveKinds
                 THEN copyToClip[p] /\ dest[p] # NoPath /\ dest[p] \in fs
                 ELSE /\ kind[p] = "ocr" /\ ~copyToClip[p]
                      /\ Completed(p) /\ text[p] \in RecognizedTexts
    /\ \A p \in Callers :
          (kind[p] = "ocr" /\ Returned(p) /\ result[p].ok) =>
              clipCalled[p] /\ clipboard.what # "none"
    /\ clipboard.what = "image" =>
          \E p \in Callers :
              kind[p] \in SaveKinds /\ copyToClip[p] /\ clipboard.path = dest[p]

\* C17 witness: one command saved with the flag set and copied its image,
\* another saved with the flag false and left the clipboard alone.
C17_Witness ==
    \E p \in Callers : \E q \in Callers \ {p} :
        /\ kind[p] \in SaveKinds /\ copyToClip[p] /\ clipCalled[p]
        /\ Returned(p) /\ result[p].ok /\ clipboard = ClipImage(dest[p])
        /\ kind[q] \in SaveKinds /\ ~copyToClip[q] /\ ~clipCalled[q]
        /\ Returned(q) /\ result[q].ok


\* C18: sound notification is fire-and-forget.  The playback thread exists
\* only for an OCR attempt whose capture completed; the call to
\* play_screenshot_sound never waits for the thread; whatever the thread has
\* done, text recognition and the clipboard write can go on; and no step of
\* the thread changes a command's position or result.
C18_SoundFireAndForget ==
    /\ [](\A p \in Callers :
            /\ sound[p] # "none" => (kind[p] = "ocr" /\ launched[p] /\ Completed(p))
            /\ pc[p] = "sound" => (sound[p] = "none" /\ ENABLED PlaySound(p))
            /\ pc[p] = "ocr" => (sound[p] # "none" /\ ENABLED Recognize(p))
            /\ pc[p] = "clip" => ENABLED CopyText(p))
    /\ [][\A p \in Callers :
            (sound[p] # "none" /\ sound'[p] # sound[p])
                => (pc' = pc /\ result' = result /\ clipboard' = clipboard)]_vars

\* C18 witness: one OCR command returned its text while its playback thread
\* had not finished, another returned its text after the fallback playback.
C18_Witness ==
    \E p \in Callers : \E q \in Callers \ {p} :
        /\ Returned(p) /\ result[p].ok /\ kind[p] = "ocr" /\ sound[p] = "spawned"
        /\ Returned(q) /\ result[q].ok /\ kind[q] = "ocr" /\ sound[q] = "fallback"


\* C19: when open_region_selector has returned success, the region-selector
\* window is shown and has received exactly one region-selector-show event,
\* whose payload carries the whole sequence returned by the monitor capture
\* in the same order and, as preview path, the path of its first MonitorShot
\* (empty for an empty sequence); the event is emitted only to a window that
\* was created and shown by this invocation.
C19_OneShowEventAfterShown ==
    /\ []((region_pc = "done" /\ region_result.ok) =>
            /\ window = "visible"
            /\ Len(events) = 1
            /\ events[1].event = "region-selector-show"
            /\ events[1].monitorShots = monitor_shots
            /\ events[1].screenshotPath =
                  (IF Len(monitor_shots) = 0 THEN NoPath ELSE monitor_shots[1].path))
    /\ [][events' # events /\ events' # <<>> =>
            /\ region_pc = "emit"
            /\ window = "visible"
            /\ events = <<>>
            /\ Len(events') = 1]_vars

\* C19 witness: a success with two monitor shots whose second display was
\* enumerated first.
C19_Witness ==
    /\ region_pc = "done" /\ region_result.ok
    /\ Len(monitor_shots) = 2 /\ monitor_shots[1].id = 2
    /\ events = <<Payload(monitor_shots)>>


\* How each command sets up the standard streams of its capture subprocess:
\* .stdin(Stdio::null()).stdout(Stdio::piped()).stderr(Stdio::piped()).spawn()
\* for interactive, window and OCR capture; .status() with no stream set up,
\* which inherits all three from the application, for full-screen capture.
StdioCaptured == [stdin |-> "null", stdout |-> "piped", stderr |-> "piped"]
StdioInherited == [stdin |-> "inherit", stdout |-> "inherit", stderr |-> "inherit"]
StdioConfig(k) == IF k = "fullscreen" THEN StdioInherited ELSE StdioCaptured

\* C20: for every capture kind the capture facility is spawned with standard
\* input closed and standard output and standard error captured.
C20_StdioCaptured ==
    \A p \in Callers : launched[p] => StdioConfig(kind[p]) = StdioCaptured


----------------------------------------------------------------------------
(* C21 .. C27                                                               *)

\* A step of caller p's capture attempt: the command's thread runs on, or
\* the external process it waits for (pgrep, the permission probe, the
\* capture facility) has exited.
AttemptStep(p) ==
    \/ Acquire(p)
    \/ Probe(p)
    \/ PermSpawn(p)
    \/ PermSpawnFail(p)
    \/ PermExit(p)
    \/ GenerateName(p)
    \/ GenerateNameFail(p)
    \/ Spawn(p)
    \/ SpawnFail(p)
    \/ WaitFail(p)
    \/ Finish(p)
    \/ PlaySound(p)
    \/ Recognize(p)
    \/ CopyText(p)

\* The capture commands alone: attempts are started, take their steps, and
\* the probe and capture processes may write their files.
NextLive ==
    \/ \E p \in Callers, k \in Kinds : Call(p, k)
    \/ \E p \in Callers : AttemptStep(p)
    \/ \E p \in Callers : PermWrite(p)
    \/ \E p \in Callers : CaptureWrite(p)

\* The four capture commands alone
SpecCapture == Init /\ [][NextLive]_vars

\* The capture commands under the scheduling the runtime gives them: as long
\* as some attempt can take a step, one is taken (a command thread that can
\* run does run, a free mutex is taken by a thread blocked on it, and every
\* external process launched exits).
SpecLive == Init /\ [][NextLive]_vars /\ WF_vars(\E p \in Callers : AttemptStep(p))

\* C21: every capture attempt that was started eventually returns, and no
\* attempt stays blocked on the lock for ever.  A returned attempt stays
\* returned, so "every attempt eventually returns" is: from some point on no
\* attempt is in flight (waiting for the lock included).  A state in which
\* an attempt is in flight and no attempt can take a step would be a
\* behaviour that stays there for ever, so the formula rules out deadlock.
C21_EveryAttemptReturns == <>[](\A p \in Callers : ~InFlight(p))

\* C21 witness: two attempts that hold the lock through their capture have
\* both launched the capture facility and returned, so one of them waited
\* for the other.
C21_Witness ==
    \E p \in Callers : \E q \in Callers \ {p} :
        /\ kind[p] \in Kinds \ {"ocr"} /\ launched[p] /\ Returned(p)
        /\ kind[q] \in Kinds \ {"ocr"} /\ launched[q] /\ Returned(q)


\* The attempts whose check_and_activate_permission is under way.
InPermissionCheck == {p \in Callers : pc[p] \in {"perm", "permwait"}}

\* C22: the permission probe uses one temporary path for all attempts, and
\* at most one permission probe is under way at a time, because every
\* attempt in check_and_activate_permission holds the single-flight lock; so
\* a file at the probe path was written by the one probe that is running.
C22_OneProbeAtATime ==
    /\ Cardinality(InPermissionCheck) <= 1
    /\ \A p \in InPermissionCheck : lock = {p}
    /\ test_path \in fs => \E p \in Callers : pc[p] = "permwait"

\* C22 witness: a probe has written the shared path while another attempt,
\* which will run its own probe, is blocked on the lock.
C22_Witness ==
    \E p \in Callers : \E q \in Callers \ {p} :
        /\ pc[p] = "permwait" /\ test_path \in fs /\ lock = {p}
        /\ pc[q] = "lock"


\* C23: both pre-spawn probes fail open.  A running-instance probe whose
\* pgrep cannot be executed reports "not running", whatever is running, and
\* the attempt goes on to the permission check; a permission probe that
\* cannot be executed and whose error text has no denial marker reports
\* "granted", and the attempt goes on towards the spawn with no error.
C23_ProbesFailOpen ==
    /\ [](\A external \in BOOLEAN : ~is_screencapture_running(FALSE, external))
    /\ [][\A p \in Callers : \A external \in BOOLEAN :
            ProbeWith(p, FALSE, external) =>
                /\ pc'[p] = "perm"
                /\ ~probeFound'[p]
                /\ result'[p] = NoResult]_vars
    /\ [][\A p \in Callers : \A e \in IoErrorTexts :
            (PermSpawnFailWith(p, e) /\ ~HasDenialMarker(e)) =>
                /\ pc'[p] = "name"
                /\ ~permDenied'[p]
                /\ result'[p] = NoResult]_vars

\* C23 witness: an attempt got past the running-instance probe although a
\* capture subprocess of this process is running, and its permission probe
\* can fail to execute without a denial marker.
C23_Witness ==
    \E p \in Callers : \E q \in Callers \ {p} :
        /\ pc[q] = "wait"
        /\ pc[p] = "perm" /\ ~probeFound[p] /\ lock = {p}
        /\ ~HasDenialMarker(IoNotFound)
        /\ ENABLED PermSpawnFailWith(p, IoNotFound)


\* C24: open_region_selector captures the monitors before it touches any
\* window.  A failed capture returns its error with the existing window and
\* the events it received unchanged; the window is closed, built, shown or
\* sent an event only after the capture succeeded; and a new window is built
\* only in a state where no region-selector window exists, so there is never
\* more than one.
C24_CaptureBeforeWindow ==
    /\ [][region_pc = "capture" => UNCHANGED <<window, events>>]_vars
    /\ [][(region_pc = "capture" /\ region_pc' = "done") =>
            /\ region_result' = Err(MsgMonitors)
            /\ UNCHANGED <<window, events>>]_vars
    /\ [][<<window, events>>' # <<window, events>> =>
            region_pc \in {"close", "build", "show", "emit"}]_vars
    /\ [][(window' # window /\ window' = "hidden") =>
            (region_pc = "build" /\ window = "none")]_vars
    /\ [][(region_pc = "close" /\ window' # window) => window' = "none"]_vars

\* C24 witness: the monitor capture failed while a region-selector window
\* that had received its event was open, and the window is still there.
C24_Witness ==
    /\ region_pc = "done" /\ region_result = Err(MsgMonitors)
    /\ window = "visible" /\ Len(events) = 1


\* C25: capture_once and save_edited_image called with the copy-to-clipboard
\* flag set return the saved path only if the save and the clipboard write
\* both succeeded; a clipboard failure after a successful save returns an
\* error while the saved file stays on disk; a failed save is never followed
\* by a clipboard write.
C25_ClipboardFailureIsError ==
    /\ [](\A p \in Callers :
            (kind[p] \in SaveKinds /\ copyToClip[p] /\ Returned(p)) =>
                /\ result[p].ok =>
                      /\ clipCalled[p]
                      /\ dest[p] # NoPath /\ dest[p] \in fs
                      /\ result[p] = Ok(dest[p])
                /\ result[p] = Err(MsgCopyImage) =>
                      (clipCalled[p] /\ dest[p] # NoPath /\ dest[p] \in fs)
                /\ dest[p] = NoPath =>
                      (~clipCalled[p] /\ result[p] \in {Err(MsgCapture), Err(MsgSave)})
                /\ result[p] \in {Ok(dest[p]), Err(MsgCopyImage), Err(MsgCapture),
                                  Err(MsgSave)})
    /\ [][\A p \in Callers :
            (pc[p] = "copyimg" /\ pc'[p] = "done") =>
                /\ result'[p].ok => clipboard' = ClipImage(dest[p])
                /\ ~result'[p].ok =>
                      (clipboard' = clipboard /\ result'[p] = Err(MsgCopyImage))
                /\ fs' = fs]_vars

\* C25 witness: the save succeeded, the clipboard write failed, the command
\* returned the clipboard error and the saved file is on disk.
C25_Witness ==
    \E p \in Callers :
        /\ kind[p] \in SaveKinds /\ copyToClip[p] /\ Returned(p)
        /\ result[p] = Err(MsgCopyImage) /\ dest[p] \in fs /\ clipboard = ClipEmpty


\* C26: native_capture_ocr_region returns recognized text only after the
\* capture completed, recognition returned non-empty text and the clipboard
\* write of that text succeeded; the text it returns is the text that was
\* written to the clipboard, and the temporary capture file is gone only
\* after the clipboard write.
C26_ReturnedTextOnClipboard ==
    /\ \A p \in Callers :
          (kind[p] = "ocr" /\ Returned(p) /\ result[p].ok) =>
              /\ Completed(p) /\ ocrInvoked[p] /\ clipCalled[p]
              /\ result[p].text = text[p] /\ text[p] # <<>>
    /\ \A p \in Callers :
          (kind[p] = "ocr" /\ Completed(p) /\ dest[p] \notin fs) =>
              (clipCalled[p] /\ Returned(p) /\ result[p].ok)
    /\ clipboard.what = "text" =>
          \E p \in Callers :
              /\ kind[p] = "ocr" /\ clipCalled[p] /\ result[p].ok
              /\ clipboard.text = result[p].text


\* a step in which show_main_window ran (tray items "open" and "preferences")
ShowMainWindowStep(showOk) ==
    \E buildOk \in BOOLEAN :
        TrayOpenWith(showOk, buildOk) \/ TrayPreferencesWith(showOk, buildOk)

\* C27: a close request on the main window or on the quick-overlay window
\* never destroys the window. The close is always prevented and the window
\* is hidden, unless the hide call fails: then the failure is only printed
\* and the window stays as it was. So both windows exist in every state
\* until the quit item exits the application; show_main_window always acts
\* on the existing main window, which becomes visible unless the show call
\* fails, and it never builds a second main window.
C27_CloseNeverDestroys ==
    /\ [](app = "running" =>
             /\ \A label \in WindowLabels : windows[label] # "none"
             /\ ~main_recreated)
    /\ [](app = "exited" => \A label \in WindowLabels : windows[label] = "none")
    /\ [][\A label \in WindowLabels :
             CloseRequestedWith(label, TRUE) =>
                 (windows'[label] = "hidden" /\ hide_errors' = hide_errors)]_vars
    /\ [][\A label \in WindowLabels :
             CloseRequestedWith(label, FALSE) =>
                 (windows'[label] = windows[label] /\ label \in hide_errors')]_vars
    /\ [][ShowMainWindowStep(TRUE) =>
             (windows'["main"] = "visible" /\ ~main_recreated')]_vars
    /\ [][ShowMainWindowStep(FALSE) =>
             (windows'["main"] = windows["main"] /\ ~main_recreated')]_vars
    /\ [][app' # app => TrayQuit]_vars

\* C27 as stated: every close request leaves the window hidden, and every
\* show_main_window leaves the main window visible
C27_AsStated ==
    /\ [](app = "running" =>
             /\ \A label \in WindowLabels : windows[label] # "none"
             /\ ~main_recreated)
    /\ [][\A label \in WindowLabels :
             CloseRequested(label) => windows'[label] = "hidden"]_vars
    /\ [][(TrayOpen \/ TrayPreferences) => windows'["main"] = "visible"]_vars

\* both windows were shown, a close request on each was answered, one of
\* them with a failed hide, the preferences item ran, and the shown main
\* window is still the one built at setup
C27_Witness ==
    /\ app = "running"
    /\ windows["main"] = "visible" /\ windows["quick-overlay"] = "hidden"
    /\ hide_errors = {"main"}
    /\ "open-preferences" \in app_events
    /\ ~main_recreated

====
